---- MODULE Spec2Model ----
(***************************************************************************)
(* A model of the veryFastRouter request router: route registration        *)
(* (HandleFunc / addRoute / newRoute / splitPath / newSegment), path       *)
(* normalisation (processPath) and request dispatch (ServeHTTP /           *)
(* findRoute).  Strings are sequences of byte values, as the code indexes  *)
(* them (path[i] != 47, seg[1] == 58).  A Go run-time panic is an outcome  *)
(* of the operation; the router keeps whatever the operation had already   *)
(* written when it panicked.                                               *)
(***************************************************************************)
EXTENDS Integers, Sequences, FiniteSets, TLC

(* ------------------------------ bounds -------------------------------- *)

\* longest pattern / request path enumerated exhaustively
MaxLen == 3

\* most routes the router holds in the model
MaxRoutes == 2

\* most routes the router holds when every string is offered as a pattern
MaxRegRoutes == 1

\* most requests served in one run
MaxRequests == 1

(* ------------------------- program constants -------------------------- *)

bufferSize == 50

\* the byte '/'
Slash == 47

\* the byte ':'
Colon == 58

\* http.StatusNotFound
StatusNotFound == 404

\* http.StatusMethodNotAllowed
StatusMethodNotAllowed == 405

GET == "GET"

POST == "POST"

AllMethods == <<GET, POST>>

\* a nil HandlerFunc; the other handlers are the numbers from 1 on
NilHandler == 0

(* ------------------------------ inputs -------------------------------- *)

\* '/', ':' and the letter 'a'
Alphabet == {Slash, Colon, 97}

Strings(n) == UNION {[1..k -> Alphabet] : k \in 0..n}

\* "/a/a/.../a" with k segments
Long(k) == [j \in 1..(2 * k) |-> IF j % 2 = 1 THEN Slash ELSE 97]

\* strings that begin with the separator
SlashStrings == {s \in Strings(MaxLen) : s # <<>> /\ s[1] = Slash}

\* every path of two segments that each have a one-byte name
TwoSegments == {<<Slash, x, Slash, y>> : x, y \in Alphabet \ {Slash}}

\* patterns offered to HandleFunc in the routing specification
Patterns == SlashStrings \cup TwoSegments

\* patterns offered to HandleFunc in the registration specification
AnyPatterns == Strings(MaxLen)

\* request paths: the transport hands over a path that begins with '/'
Paths == SlashStrings \cup TwoSegments

\* the segment counts of the long request paths: up to one more than the buffer holds
SegmentCounts == 1..(bufferSize + 1)

RequestMethods == {GET, POST}

\* method lists offered to HandleFunc; a nil slice is the empty list
MethodLists == {<<>>, <<GET>>, AllMethods}

(* ------------------------------ state --------------------------------- *)

VARIABLES staticRoutes, variableRoutes, requests, last

vars == <<staticRoutes, variableRoutes, requests, last>>

\* a *route that is nil, and the two kinds of route a pointer can name
NoRoute == [kind |-> "nil", key |-> <<>>, index |-> 0]

StaticRef(k) == [kind |-> "static", key |-> k, index |-> 0]

VariableRef(i) == [kind |-> "variable", key |-> <<>>, index |-> i]

Deref(st, vr, ref) == IF ref.kind = "static" THEN st[ref.key] ELSE vr[ref.index]

EmptyMap == [k \in {} |-> 0]

MapPut(m, k, v) == [x \in DOMAIN m \cup {k} |-> IF x = k THEN v ELSE m[x]]

NumRoutes == Cardinality(DOMAIN staticRoutes) + Len(variableRoutes)

AllRoutes == {staticRoutes[k] : k \in DOMAIN staticRoutes}
             \cup {variableRoutes[i] : i \in 1..Len(variableRoutes)}

(* --------------------------- pure functions --------------------------- *)

\* processPath without the branch that drops the trailing '/'
processPathKeepsSlash(s) ==
    IF Len(s) = 0 THEN [panic |-> TRUE, val |-> s] ELSE [panic |-> FALSE, val |-> s]

\* processPath: s[len(s)-1] is read first, so the empty string panics
processPath(s) ==
    IF Len(s) = 0 THEN [panic |-> TRUE, val |-> s]
    ELSE IF s[Len(s)] = Slash /\ Len(s) > 1
         THEN [panic |-> FALSE, val |-> SubSeq(s, 1, Len(s) - 1)]
         ELSE [panic |-> FALSE, val |-> s]

\* newSegment: seg[1] is read, so a one-byte segment panics
newSegment(seg) ==
    IF Len(seg) < 2
    THEN [panic |-> TRUE, seg |-> [value |-> seg, isVariable |-> FALSE, ok |-> FALSE]]
    ELSE [panic |-> FALSE, seg |-> [value |-> seg, isVariable |-> seg[2] = Colon, ok |-> TRUE]]

\* the Go index the scanning loops stop at when they start from i and step down over
\* every byte that is not '/': the last '/' at or before i, or -1 when the loop runs out
lastSlash(path, i) ==
    IF \A j \in 0..i : path[j + 1] # Slash THEN -1
    ELSE CHOOSE j \in 0..i : path[j + 1] = Slash /\ \A k \in (j + 1)..i : path[k + 1] # Slash

\* the loop of splitPath from Go index i on
RECURSIVE splitPathLoop(_, _, _)
splitPathLoop(path, i, buffer) ==
    LET j == lastSlash(path, i)
        ns == newSegment(SubSeq(path, j + 1, Len(path)))
    IN  IF j < 0 THEN [panic |-> FALSE, buffer |-> buffer]
        ELSE IF ns.panic THEN [panic |-> TRUE, buffer |-> buffer]
        ELSE splitPathLoop(SubSeq(path, 1, j), j - 1, Append(buffer, ns.seg))

splitPath(path) == splitPathLoop(path, Len(path) - 1, <<>>)

routeHasVariables(segments) == \E i \in 1..Len(segments) : segments[i].isVariable

\* newRoute that keeps the pattern as written in originalPattern
newRouteRawPattern(path) ==
    LET p == processPath(path)
        sp == IF p.panic THEN [panic |-> TRUE, buffer |-> <<>>] ELSE splitPath(p.val)
    IN  [panic |-> sp.panic,
         route |-> [originalPattern |-> path,
                    segments |-> sp.buffer,
                    hasVariables |-> routeHasVariables(sp.buffer),
                    methods |-> <<>>,
                    handler |-> NilHandler]]

\* newRoute: never returns an error; it panics where processPath or newSegment do
newRoute(path) ==
    LET p == processPath(path)
        sp == IF p.panic THEN [panic |-> TRUE, buffer |-> <<>>] ELSE splitPath(p.val)
    IN  [panic |-> sp.panic,
         route |-> [originalPattern |-> p.val,
                    segments |-> sp.buffer,
                    hasVariables |-> routeHasVariables(sp.buffer),
                    methods |-> <<>>,
                    handler |-> NilHandler]]

\* addRoute: the route goes into the router before HandleFunc fills it in
addRoute(st, vr, pattern) ==
    LET nr == newRoute(pattern)
    IN  IF nr.panic THEN [panic |-> TRUE, st |-> st, vr |-> vr, ref |-> NoRoute]
        ELSE IF ~nr.route.hasVariables
        THEN [panic |-> FALSE,
              st |-> MapPut(st, nr.route.originalPattern, nr.route),
              vr |-> vr,
              ref |-> StaticRef(nr.route.originalPattern)]
        ELSE [panic |-> FALSE,
              st |-> st,
              vr |-> Append(vr, nr.route),
              ref |-> VariableRef(Len(vr) + 1)]

\* pathDetails{count: 0, segments: [50]string{}}
newPathDetails == [count |-> 0, segments |-> [i \in 1..bufferSize |-> <<>>], panic |-> FALSE]

\* the tokenising loop without "path = path[:i]": every segment runs to the end of the path
RECURSIVE tokenizeKeepsPath(_, _, _)
tokenizeKeepsPath(path, i, pd) ==
    LET j == lastSlash(path, i)
    IN  IF j < 0 THEN pd
        ELSE IF pd.count >= bufferSize THEN [pd EXCEPT !.panic = TRUE]
        ELSE tokenizeKeepsPath(path, j - 1,
                      [pd EXCEPT !.segments[pd.count + 1] = SubSeq(path, j + 1, Len(path)),
                                 !.count = pd.count + 1])

\* the tokenising loop of findRoute; a write at index pd.count >= bufferSize panics
RECURSIVE tokenize(_, _, _)
tokenize(path, i, pd) ==
    LET j == lastSlash(path, i)
    IN  IF j < 0 THEN pd
        ELSE IF pd.count >= bufferSize THEN [pd EXCEPT !.panic = TRUE]
        ELSE tokenize(SubSeq(path, 1, j), j - 1,
                      [pd EXCEPT !.segments[pd.count + 1] = SubSeq(path, j + 1, Len(path)),
                                 !.count = pd.count + 1])

\* route.compare
compare(route, pd) ==
    /\ Len(route.segments) = pd.count
    /\ \A i \in 1..pd.count :
          IF route.segments[i].isVariable
          THEN pd.segments[i] # <<>>
          ELSE route.segments[i].value = pd.segments[i]

\* the scan that keeps going after a hit: the last index from i on whose route compares equal
RECURSIVE scanRoutesLastMatch(_, _, _)
scanRoutesLastMatch(vr, pd, i) ==
    IF i > Len(vr) THEN NoRoute
    ELSE LET later == scanRoutesLastMatch(vr, pd, i + 1)
         IN  IF later # NoRoute THEN later
             ELSE IF compare(vr[i], pd) THEN VariableRef(i) ELSE NoRoute

\* the scan over variableRoutes: the first index from i on whose route compares equal
RECURSIVE scanRoutes(_, _, _)
scanRoutes(vr, pd, i) ==
    IF i > Len(vr) THEN NoRoute
    ELSE IF compare(vr[i], pd) THEN VariableRef(i)
    ELSE scanRoutes(vr, pd, i + 1)

\* findRoute that scans the variable routes before it looks at the static table
findRouteVariablesFirst(st, vr, rawPath) ==
    LET p == processPath(rawPath)
    IN  IF p.panic THEN [panic |-> TRUE, ref |-> NoRoute, count |-> 0]
        ELSE LET pd == tokenize(p.val, Len(p.val) - 1, newPathDetails)
                 hit == scanRoutes(vr, pd, 1)
             IN  IF pd.panic THEN [panic |-> TRUE, ref |-> NoRoute, count |-> pd.count]
                 ELSE IF hit # NoRoute THEN [panic |-> FALSE, ref |-> hit, count |-> pd.count]
                 ELSE IF p.val \in DOMAIN st
                      THEN [panic |-> FALSE, ref |-> StaticRef(p.val), count |-> pd.count]
                      ELSE [panic |-> FALSE, ref |-> NoRoute, count |-> pd.count]

findRoute(st, vr, rawPath) ==
    LET p == processPath(rawPath)
    IN  IF p.panic THEN [panic |-> TRUE, ref |-> NoRoute, count |-> 0]
        ELSE IF p.val \in DOMAIN st THEN [panic |-> FALSE, ref |-> StaticRef(p.val), count |-> 0]
        ELSE LET pd == tokenize(p.val, Len(p.val) - 1, newPathDetails)
             IN  IF pd.panic THEN [panic |-> TRUE, ref |-> NoRoute, count |-> pd.count]
                 ELSE [panic |-> FALSE, ref |-> scanRoutes(vr, pd, 1), count |-> pd.count]

allowedMethod(methods, method) == \E i \in 1..Len(methods) : methods[i] = method

\* what a ServeHTTP call ends in
Panicked(why) == [kind |-> "panic", handler |-> NilHandler, code |-> 0, why |-> why]

StatusHandler(code) == [kind |-> "status", handler |-> NilHandler, code |-> code, why |-> ""]

RouteHandler(h) == [kind |-> "handler", handler |-> h, code |-> 0, why |-> ""]

NothingInvoked == [kind |-> "none", handler |-> NilHandler, code |-> 0, why |-> ""]

\* what ServeHTTP invokes: the 404 or 405 fallback or the route's handler, unless it panics
serve(st, vr, method, path) ==
    LET fr == findRoute(st, vr, path)
    IN  IF fr.panic THEN [invoked |-> Panicked("index out of range"), found |-> fr]
        ELSE IF fr.ref = NoRoute THEN [invoked |-> StatusHandler(StatusNotFound), found |-> fr]
        ELSE LET route == Deref(st, vr, fr.ref)
             IN  IF ~allowedMethod(route.methods, method)
                 THEN [invoked |-> StatusHandler(StatusMethodNotAllowed), found |-> fr]
                 ELSE IF route.handler = NilHandler
                      THEN [invoked |-> Panicked("nil handler"), found |-> fr]
                      ELSE [invoked |-> RouteHandler(route.handler), found |-> fr]

(* ------------------------------ actions ------------------------------- *)

Init ==
    /\ staticRoutes = EmptyMap
    /\ variableRoutes = <<>>
    /\ requests = 0
    /\ last = [op |-> "NewRouter", path |-> <<>>, methods |-> <<>>, method |-> "",
               handler |-> NilHandler, outcome |-> "ok", invoked |-> NothingInvoked,
               found |-> NoRoute, count |-> 0]

\* the router after HandleFunc wrote field f of the route it added
SetField(st, vr, ref, f, v) ==
    IF ref.kind = "static"
    THEN [st |-> [st EXCEPT ![ref.key] = [@ EXCEPT ![f] = v]], vr |-> vr]
    ELSE [st |-> st, vr |-> [vr EXCEPT ![ref.index] = [@ EXCEPT ![f] = v]]]

HandleFunc(pattern, methods, handler) ==
    LET ar == addRoute(staticRoutes, variableRoutes, pattern)
        withMethods == SetField(ar.st, ar.vr, ar.ref, "methods", methods)
        withHandler == SetField(withMethods.st, withMethods.vr, ar.ref, "handler", handler)
        done(st, vr, outcome) ==
            /\ staticRoutes' = st
            /\ variableRoutes' = vr
            /\ last' = [op |-> "HandleFunc", path |-> pattern, methods |-> methods,
                        method |-> "", handler |-> handler, outcome |-> outcome,
                        invoked |-> NothingInvoked, found |-> ar.ref, count |-> 0]
    IN  /\ IF ar.panic THEN done(staticRoutes, variableRoutes, "panic: index out of range")
           ELSE IF Len(methods) = 0 THEN done(withMethods.st, withMethods.vr, "panic: methods")
           ELSE IF handler = NilHandler THEN done(withHandler.st, withHandler.vr, "panic: handler")
           ELSE done(withHandler.st, withHandler.vr, "ok")
        /\ UNCHANGED requests

ServeHTTP(method, path) ==
    LET s == serve(staticRoutes, variableRoutes, method, path)
    IN  /\ requests < MaxRequests
        /\ requests' = requests + 1
        /\ last' = [op |-> "ServeHTTP", path |-> path, methods |-> <<>>, method |-> method,
                    handler |-> NilHandler, outcome |-> "", invoked |-> s.invoked,
                    found |-> s.found.ref, count |-> s.found.count]
        /\ UNCHANGED <<staticRoutes, variableRoutes>>

\* each registration brings a handler of its own, or none
HandlerInputs == {NilHandler, NumRoutes + 1}

Register == \E pattern \in Patterns, methods \in MethodLists, handler \in HandlerInputs :
                NumRoutes < MaxRoutes /\ HandleFunc(pattern, methods, handler)

RegisterAny == \E pattern \in AnyPatterns, methods \in MethodLists, handler \in HandlerInputs :
                   NumRoutes < MaxRegRoutes /\ HandleFunc(pattern, methods, handler)

Request == \E method \in RequestMethods, path \in Paths : ServeHTTP(method, path)

RequestLong == \E method \in RequestMethods, k \in SegmentCounts : ServeHTTP(method, Long(k))

Next == Register \/ Request

Spec == Init /\ [][Next]_vars

NextReg == RegisterAny

SpecReg == Init /\ [][NextReg]_vars

NextLong == RequestLong

SpecLong == Init /\ [][NextLong]_vars

(* ------------------------------ properties ---------------------------- *)

\* The properties speak of a path through the positions of its separators, not through
\* the tokenisers above.

\* a path without its one trailing separator
StripOne(s) == IF Len(s) > 1 /\ s[Len(s)] = Slash THEN SubSeq(s, 1, Len(s) - 1) ELSE s

SlashPositions(p) == {i \in 1..Len(p) : p[i] = Slash}

SegmentCount(p) == Cardinality(SlashPositions(p))

\* the k-th segment of p counted from the right: from its separator up to the next one
SegmentFromRight(p, k) ==
    LET from == CHOOSE i \in SlashPositions(p) :
                    Cardinality({j \in SlashPositions(p) : j > i}) = k - 1
        later == {j \in SlashPositions(p) : j > from}
        to == IF later = {} THEN Len(p) ELSE (CHOOSE j \in later : \A x \in later : j <= x) - 1
    IN  SubSeq(p, from, to)

\* route r matches the normalised path p segment by segment
Matches(r, p) ==
    /\ SegmentCount(p) = Len(r.segments)
    /\ \A k \in 1..Len(r.segments) :
          IF r.segments[k].isVariable
          THEN SegmentFromRight(p, k) # <<>>
          ELSE SegmentFromRight(p, k) = r.segments[k].value

\* a segment that is the separator alone
HasBareSegment(p) == \E i \in 1..Len(p) : p[i] = Slash /\ (i = Len(p) \/ p[i + 1] = Slash)

Malformed(pattern) == pattern = <<>> \/ pattern[1] # Slash

Registered == last.op = "HandleFunc" /\ last.outcome = "ok"

Served == last.op = "ServeHTTP"

\* the request path of the last call, normalised
RequestPath == StripOne(last.path)

\* HandleFunc's pattern is served as registered: every method of its list reaches its handler
PatternServed ==
    \A m \in RequestMethods :
        (\E i \in 1..Len(last.methods) : last.methods[i] = m)
            => serve(staticRoutes, variableRoutes, m, last.path).invoked = RouteHandler(last.handler)

\* an earlier variable route matches the text of the pattern HandleFunc just added
Shadowed ==
    /\ last.found.kind = "variable"
    /\ \E i \in 1..(last.found.index - 1) : Matches(variableRoutes[i], RequestPath)

\* every route the router holds was filled in by a HandleFunc call that returned
RegistrationsReturned == \A r \in AllRoutes : Len(r.methods) > 0 /\ r.handler # NilHandler

\* C1, as stated: after HandleFunc(P, M, h) returns, in any router state reached by earlier
\* registrations, a request for exactly P with a method of M invokes h and no fallback.
RegisteredPatternServed == (Registered /\ RegistrationsReturned) => PatternServed

\* C1, amended: the same, for a pattern without variables, and for a pattern with variables
\* of at most bufferSize segments whose text no earlier variable route matches.
RegisteredPatternServedUnlessShadowed ==
    (/\ Registered
     /\ \/ last.found.kind = "static"
        \/ ~Shadowed /\ SegmentCount(RequestPath) <= bufferSize)
        => PatternServed

\* a variable pattern registered second, after a variable route that does not match its text
UnshadowedVariablePatternServed ==
    /\ Registered
    /\ last.found = VariableRef(2)
    /\ ~Shadowed
    /\ Len(last.methods) = 2
    /\ last.path # RequestPath

\* C2: a static route whose pattern equals the normalised request path is the one findRoute
\* returns, whatever variable routes match the path and whenever they were registered.
StaticRouteHasPriority ==
    (Served /\ RequestPath \in DOMAIN staticRoutes) => last.found = StaticRef(RequestPath)

\* a static route is returned although a variable route registered before it matches too
StaticChosenOverEarlierVariable ==
    /\ Served
    /\ last.found.kind = "static"
    /\ \E i \in 1..Len(variableRoutes) :
          /\ Matches(variableRoutes[i], RequestPath)
          /\ variableRoutes[i].handler # NilHandler
          /\ variableRoutes[i].handler < staticRoutes[RequestPath].handler

\* the variable routes that match the request path of the last call
MatchingRoutes == {i \in 1..Len(variableRoutes) : Matches(variableRoutes[i], RequestPath)}

\* C3: when no static route equals the normalised path, findRoute returns the matching
\* variable route that was registered first, and none when no variable route matches.
FirstRegisteredVariableRouteWins ==
    (Served /\ RequestPath \notin DOMAIN staticRoutes)
        => IF MatchingRoutes = {} THEN last.found = NoRoute
           ELSE /\ last.found.kind = "variable"
                /\ last.found.index \in MatchingRoutes
                /\ \A i \in MatchingRoutes : last.found.index <= i

LiteralSegments(r) == Cardinality({k \in 1..Len(r.segments) : ~r.segments[k].isVariable})

\* the first variable route is returned although the second matches with more literal segments
EarlierBroaderRouteWins ==
    /\ Served
    /\ last.found = VariableRef(1)
    /\ 2 \in MatchingRoutes
    /\ LiteralSegments(variableRoutes[2]) > LiteralSegments(variableRoutes[1])

\* C4: a variable route compares equal to a request path exactly when the path has as many
\* segments as the route and, position by position from the right, equals each literal
\* segment and is non-empty at each variable one; the route findRoute returns has the
\* path's segment count; a route's own segments are those of its pattern from the right.
CompareMatchesSegmentwise ==
    Served =>
        LET pd == tokenize(RequestPath, Len(RequestPath) - 1, newPathDetails)
        IN  /\ ~pd.panic
            /\ pd.count = SegmentCount(RequestPath)
            /\ \A i \in 1..Len(variableRoutes) :
                  /\ compare(variableRoutes[i], pd) = Matches(variableRoutes[i], RequestPath)
                  /\ last.found = VariableRef(i)
                        => Len(variableRoutes[i].segments) = SegmentCount(RequestPath)
                  /\ \A k \in 1..Len(variableRoutes[i].segments) :
                        variableRoutes[i].segments[k].value
                            = SegmentFromRight(variableRoutes[i].originalPattern, k)

\* a route of a literal and a variable segment is returned for a path that is not its own
\* text, while another variable route with a different segment count is passed over
TwoSegmentRouteMatched ==
    /\ Served
    /\ last.found.kind = "variable"
    /\ LET r == variableRoutes[last.found.index]
       IN  /\ Len(r.segments) = 2
           /\ LiteralSegments(r) = 1
           /\ r.originalPattern # RequestPath
    /\ \E i \in 1..Len(variableRoutes) : Len(variableRoutes[i].segments) # SegmentCount(RequestPath)

\* what ServeHTTP is to invoke for the route findRoute returned
ExpectedHandler ==
    IF last.found = NoRoute THEN StatusHandler(StatusNotFound)
    ELSE LET route == Deref(staticRoutes, variableRoutes, last.found)
         IN  IF \A i \in 1..Len(route.methods) : route.methods[i] # last.method
             THEN StatusHandler(StatusMethodNotAllowed)
             ELSE RouteHandler(route.handler)

\* C5: every ServeHTTP call invokes exactly one handler: the 404 fallback when findRoute
\* returns no route, the 405 fallback when the route does not allow the method, and the
\* route's handler otherwise.
ServeInvokesExactlyOneHandler ==
    Served => /\ last.invoked.kind \in {"status", "handler"}
              /\ last.invoked.kind = "handler" => last.invoked.handler # NilHandler
              /\ last.invoked = ExpectedHandler

\* C6: HandleFunc fails on a pattern that is empty or does not begin with '/', and adds no
\* route for it.
MalformedPatternRejected ==
    (last.op = "HandleFunc" /\ Malformed(last.path))
        => /\ last.outcome # "ok"
           /\ NumRoutes = 0

\* C7: HandleFunc fails when the method list is empty or the handler is nil, and every route
\* the router holds has a method and a handler, also after a call that failed.
RoutesAreComplete ==
    /\ (last.op = "HandleFunc" /\ (Len(last.methods) = 0 \/ last.handler = NilHandler))
           => last.outcome # "ok"
    /\ \A r \in AllRoutes : Len(r.methods) > 0 /\ r.handler # NilHandler

Idempotent(s) == processPath(processPath(s).val) = processPath(s)

\* the same route with and without one more trailing separator
SameRouteWithSeparator ==
    findRoute(staticRoutes, variableRoutes, last.path \o <<Slash>>).ref = last.found

\* C8, as stated: processPath is idempotent on every non-empty path, and any path but the
\* root resolves to the same route with a separator appended.
NormalizationIdempotent ==
    Served => /\ Idempotent(last.path)
              /\ last.path # <<Slash>> => SameRouteWithSeparator

EndsInTwoSeparators(s) == Len(s) >= 3 /\ s[Len(s)] = Slash /\ s[Len(s) - 1] = Slash

\* C8, amended: processPath drops one trailing separator, so it is idempotent exactly on
\* the paths that do not end in two separators after a first byte, and a path that does
\* not end in a separator resolves to the same route with one appended.
NormalizationDropsOneSeparator ==
    /\ last.path # <<>> => (Idempotent(last.path) <=> ~EndsInTwoSeparators(last.path))
    /\ (Served /\ last.path[Len(last.path)] # Slash) => SameRouteWithSeparator

\* a path that finds a route, and finds the same one with a separator appended
RouteFoundWithAndWithoutSeparator ==
    /\ Served
    /\ last.path[Len(last.path)] # Slash
    /\ last.found # NoRoute
    /\ SameRouteWithSeparator

\* C9: a pattern with a segment that is the separator alone (the root, or two separators in
\* a row) is tokenised without an index-out-of-range failure and registered as a route.
BareSegmentPatternRegistered ==
    (last.op = "HandleFunc" /\ HasBareSegment(RequestPath))
        => /\ last.outcome # "panic: index out of range"
           /\ last.found # NoRoute

\* C10: findRoute writes pd.segments[pd.count] only with pd.count < bufferSize, so a request
\* path of any number of segments ends in a route or none, not an out-of-range failure.
TokenizationStaysInBuffer ==
    Served => ~(last.invoked = Panicked("index out of range") /\ last.count >= bufferSize)

====
